---- MODULE Spec2Model ----
(***************************************************************************)
(* A model of the two view components of                                   *)
(* react/features/toolbox/components/web/Toolbox.tsx:                      *)
(*   - Toolbox: the event handlers of the main toolbar, the intents they   *)
(*     dispatch to the store and the effects that run after a render;      *)
(*   - SharedVideo: getDimensions and getManager.                          *)
(* Three specifications share the variables: Spec (the toolbox),           *)
(* SpecDimensions (getDimensions) and SpecManager (getManager).            *)
(***************************************************************************)
EXTENDS Integers, Sequences, FiniteSets

VARIABLES
    toolbox,        \* state['features/toolbox']: the flags the component reads
    isDialogVisible,\* Boolean(state['features/base/dialog'].component)
    config,         \* what decides which elements (and so which handlers) exist
    focusInToolbox, \* document.activeElement is inside _toolboxRef.current
    lastCall,       \* the last invocation of one of the useCallback handlers
    dispatched,     \* the intents dispatched by the last step, in order
    props,          \* the props of SharedVideo
    interfaceConfig,\* interfaceConfig.VERTICAL_FILMSTRIP
    pc,             \* position of the SharedVideo method: "ready" or "done"
    heights,        \* what getToolboxHeight / getFilmstripHeight returned
    result          \* what the SharedVideo method returned (or threw)

vars == <<toolbox, isDialogVisible, config, focusInToolbox, lastCall, dispatched,
          props, interfaceConfig, pc, heights, result>>

toolboxVars == <<toolbox, isDialogVisible, config, focusInToolbox, lastCall, dispatched>>
sharedVideoVars == <<props, interfaceConfig, pc, heights, result>>

(***************************************************************************)
(* The store.                                                              *)
(***************************************************************************)

\* The action creators imported from actions.web.
setHangupMenuVisible(visible) == [type |-> "SET_HANGUP_MENU_VISIBLE", visible |-> visible]
setOverflowMenuVisible(visible) == [type |-> "SET_OVERFLOW_MENU_VISIBLE", visible |-> visible]
setToolbarHovered(hovered) == [type |-> "SET_TOOLBAR_HOVERED", hovered |-> hovered]
showToolbox == [type |-> "SHOW_TOOLBOX"]

\* What the store does with one intent (the reducer is outside this file).
reduce(state, action) ==
    CASE action.type = "SET_HANGUP_MENU_VISIBLE" ->
            [state EXCEPT !.hangupMenuVisible = action.visible]
      [] action.type = "SET_OVERFLOW_MENU_VISIBLE" ->
            [state EXCEPT !.overflowMenuVisible = action.visible]
      [] action.type = "SET_TOOLBAR_HOVERED" ->
            [state EXCEPT !.hovered = action.hovered]
      [] action.type = "SHOW_TOOLBOX" ->
            [state EXCEPT !.toolbarVisible = TRUE]

\* dispatch applied to each intent of a sequence, in order.
RECURSIVE dispatchAll(_, _)
dispatchAll(state, actions) ==
    IF actions = <<>> THEN state
    ELSE dispatchAll(reduce(state, Head(actions)), Tail(actions))

(***************************************************************************)
(* The handlers of Toolbox: each gives the intents it dispatches, in       *)
(* order, from the values its closure captured at the last render.         *)
(***************************************************************************)

\* Mutant: the toolbar is marked hovered whatever the visibility asked for.
onSetHangupVisibleAlwaysHovered(visible) ==
    <<setHangupMenuVisible(visible), setToolbarHovered(TRUE)>>

onSetHangupVisible(visible) ==
    <<setHangupMenuVisible(visible), setToolbarHovered(visible)>>

onSetOverflowVisible(visible) ==
    <<setOverflowMenuVisible(visible), setToolbarHovered(visible)>>

\* e is <<>> (no event) or <<key>>.
IsEscape(e) == e # <<>> /\ e[1] = "Escape"

\* Mutant: Escape closes the hangup menu and forgets the overflow menu.
onEscKeyHangupOnly(state, e) ==
    IF IsEscape(e)
    THEN [stopPropagation |-> TRUE,
          intents |->
            (IF state.hangupMenuVisible THEN <<setHangupMenuVisible(FALSE)>> ELSE <<>>)]
    ELSE [stopPropagation |-> FALSE, intents |-> <<>>]

\* The handler's effect on the event and the intents it dispatches.
onEscKey(state, e) ==
    IF IsEscape(e)
    THEN [stopPropagation |-> TRUE,
          intents |->
            (IF state.hangupMenuVisible THEN <<setHangupMenuVisible(FALSE)>> ELSE <<>>)
            \o (IF state.overflowMenuVisible THEN <<setOverflowMenuVisible(FALSE)>> ELSE <<>>)]
    ELSE [stopPropagation |-> FALSE, intents |-> <<>>]

\* Mutant: the guard on the overflow menu is dropped.
onMouseOutUnguarded(state) == <<setToolbarHovered(FALSE)>>

onMouseOut(state) ==
    IF ~state.overflowMenuVisible THEN <<setToolbarHovered(FALSE)>> ELSE <<>>

onMouseOver == <<setToolbarHovered(TRUE)>>

\* Mutant: showToolbox is dispatched on every focus.
onTabInUnguarded(state) == <<showToolbox>>

onTabIn(state) ==
    IF ~state.toolbarVisible THEN <<showToolbox>> ELSE <<>>

(***************************************************************************)
(* What is rendered.                                                       *)
(***************************************************************************)

\* The component returns null for a recorder or a SIP gateway.
Rendered == ~(config.iAmRecorder \/ config.iAmSipGateway)

\* HangupMenuButton (and its ContextMenu) replaces HangupButton.
HangupMenuRendered ==
    Rendered /\ config.hangupEnabled /\ config.endConferenceSupported

Keys == {"Escape", "Enter", "Tab"}
KeyEvents == {<<>>} \cup {<<k>> : k \in Keys}

InitialToolbox ==
    [overflowMenuVisible |-> FALSE, hangupMenuVisible |-> FALSE,
     hovered |-> FALSE, toolbarVisible |-> FALSE]

NoCall ==
    [handler |-> "none", visible |-> FALSE, event |-> <<>>, stopped |-> FALSE,
     before |-> InitialToolbox, after |-> InitialToolbox, dispatched |-> <<>>]

Call(handler, visible, e, stopped, intents) ==
    [handler |-> handler, visible |-> visible, event |-> e, stopped |-> stopped,
     before |-> toolbox, after |-> dispatchAll(toolbox, intents),
     dispatched |-> intents]

(***************************************************************************)
(* The effects that run after a render, before the next event.             *)
(***************************************************************************)

BlurPending == ~toolbox.toolbarVisible /\ focusInToolbox
HangupEffectPending == toolbox.hangupMenuVisible /\ ~toolbox.toolbarVisible
OverflowEffectPending == toolbox.overflowMenuVisible /\ isDialogVisible
EffectsPending == BlurPending \/ HangupEffectPending \/ OverflowEffectPending

\* useEffect [toolbarVisible]: a hidden toolbox gives up the focus.
BlurEffect ==
    /\ BlurPending
    /\ focusInToolbox' = FALSE
    /\ dispatched' = <<>>
    /\ UNCHANGED <<toolbox, isDialogVisible, config, lastCall>>
    /\ UNCHANGED sharedVideoVars

\* useEffect: the hangup menu closes with the toolbox.
HangupEffect ==
    /\ HangupEffectPending
    /\ lastCall' = Call("onSetHangupVisible", FALSE, <<>>, FALSE, onSetHangupVisible(FALSE))
    /\ dispatched' = onSetHangupVisible(FALSE) \o <<setToolbarHovered(FALSE)>>
    /\ toolbox' = dispatchAll(toolbox, dispatched')
    /\ UNCHANGED <<isDialogVisible, config, focusInToolbox>>
    /\ UNCHANGED sharedVideoVars

\* useEffect: the overflow menu closes when a dialog opens.
OverflowEffect ==
    /\ OverflowEffectPending
    /\ lastCall' = Call("onSetOverflowVisible", FALSE, <<>>, FALSE,
                        onSetOverflowVisible(FALSE))
    /\ dispatched' = onSetOverflowVisible(FALSE) \o <<setToolbarHovered(FALSE)>>
    /\ toolbox' = dispatchAll(toolbox, dispatched')
    /\ UNCHANGED <<isDialogVisible, config, focusInToolbox>>
    /\ UNCHANGED sharedVideoVars

(***************************************************************************)
(* The events of the toolbox.                                              *)
(***************************************************************************)

Handle(handler, visible, e, stopped, intents) ==
    /\ lastCall' = Call(handler, visible, e, stopped, intents)
    /\ dispatched' = intents
    /\ toolbox' = dispatchAll(toolbox, intents)

\* HangupMenuButton onVisibilityChange.
HangupVisibilityChange ==
    /\ HangupMenuRendered /\ ~EffectsPending
    /\ \E visible \in BOOLEAN :
          Handle("onSetHangupVisible", visible, <<>>, FALSE, onSetHangupVisible(visible))
    /\ UNCHANGED <<isDialogVisible, config, focusInToolbox>>
    /\ UNCHANGED sharedVideoVars

\* ContextMenu onKeyDown.
KeyDown ==
    /\ HangupMenuRendered /\ ~EffectsPending
    /\ \E e \in KeyEvents :
          LET r == onEscKey(toolbox, e)
          IN  Handle("onEscKey", FALSE, e, r.stopPropagation, r.intents)
    /\ UNCHANGED <<isDialogVisible, config, focusInToolbox>>
    /\ UNCHANGED sharedVideoVars

MouseOut ==
    /\ Rendered /\ ~config.isMobile /\ ~EffectsPending
    /\ Handle("onMouseOut", FALSE, <<>>, FALSE, onMouseOut(toolbox))
    /\ UNCHANGED <<isDialogVisible, config, focusInToolbox>>
    /\ UNCHANGED sharedVideoVars

MouseOver ==
    /\ Rendered /\ ~config.isMobile /\ ~EffectsPending
    /\ Handle("onMouseOver", FALSE, <<>>, FALSE, onMouseOver)
    /\ UNCHANGED <<isDialogVisible, config, focusInToolbox>>
    /\ UNCHANGED sharedVideoVars

\* onFocus of the wrapper: an element of the toolbox took the focus.
Focus ==
    /\ Rendered /\ ~EffectsPending
    /\ Handle("onTabIn", FALSE, <<>>, FALSE, onTabIn(toolbox))
    /\ focusInToolbox' = TRUE
    /\ UNCHANGED <<isDialogVisible, config>>
    /\ UNCHANGED sharedVideoVars

\* The focus moves out of the toolbox; no handler of the component runs.
FocusLeaves ==
    /\ focusInToolbox /\ ~EffectsPending
    /\ focusInToolbox' = FALSE
    /\ lastCall' = NoCall
    /\ dispatched' = <<>>
    /\ UNCHANGED <<toolbox, isDialogVisible, config>>
    /\ UNCHANGED sharedVideoVars

(***************************************************************************)
(* The rest of the application changes what the selectors read.            *)
(***************************************************************************)

StoreOverflowMenuVisible ==
    /\ ~EffectsPending
    /\ toolbox' = [toolbox EXCEPT !.overflowMenuVisible = ~toolbox.overflowMenuVisible]
    /\ lastCall' = NoCall
    /\ dispatched' = <<>>
    /\ UNCHANGED <<isDialogVisible, config, focusInToolbox>>
    /\ UNCHANGED sharedVideoVars

StoreToolboxVisible ==
    /\ ~EffectsPending
    /\ toolbox' = [toolbox EXCEPT !.toolbarVisible = ~toolbox.toolbarVisible]
    /\ lastCall' = NoCall
    /\ dispatched' = <<>>
    /\ UNCHANGED <<isDialogVisible, config, focusInToolbox>>
    /\ UNCHANGED sharedVideoVars

StoreDialog ==
    /\ ~EffectsPending
    /\ isDialogVisible' = ~isDialogVisible
    /\ lastCall' = NoCall
    /\ dispatched' = <<>>
    /\ UNCHANGED <<toolbox, config, focusInToolbox>>
    /\ UNCHANGED sharedVideoVars

InitSharedVideoIdle ==
    /\ props = [clientHeight |-> 0, clientWidth |-> 0, filmstripVisible |-> FALSE,
                filmstripWidth |-> 0, videoUrl |-> <<>>]
    /\ interfaceConfig = [VERTICAL_FILMSTRIP |-> FALSE]
    /\ pc = "ready"
    /\ heights = [toolbox |-> 0, filmstrip |-> 0]
    /\ result = [kind |-> "none"]

Init ==
    /\ toolbox = InitialToolbox
    /\ isDialogVisible = FALSE
    /\ config \in [iAmRecorder : BOOLEAN, iAmSipGateway : BOOLEAN, isMobile : BOOLEAN,
                   hangupEnabled : BOOLEAN, endConferenceSupported : BOOLEAN]
    /\ focusInToolbox = FALSE
    /\ lastCall = NoCall
    /\ dispatched = <<>>
    /\ InitSharedVideoIdle

Next ==
    \/ BlurEffect
    \/ HangupEffect
    \/ OverflowEffect
    \/ HangupVisibilityChange
    \/ KeyDown
    \/ MouseOut
    \/ MouseOver
    \/ Focus
    \/ FocusLeaves
    \/ StoreOverflowMenuVisible
    \/ StoreToolboxVisible
    \/ StoreDialog

Spec == Init /\ [][Next]_vars

(***************************************************************************)
(* SharedVideo.getDimensions.                                              *)
(***************************************************************************)

MaxClient == 11
MaxSub == 12
MaxNeg == 2

ClientSizes == 0 .. MaxClient
SubSizes == (0 - MaxNeg) .. MaxSub

\* Strings are sequences of one-character strings.
Digits == <<"0", "1", "2", "3", "4", "5", "6", "7", "8", "9">>

RECURSIVE NatToString(_)
NatToString(n) ==
    IF n < 10 THEN <<Digits[n + 1]>>
    ELSE NatToString(n \div 10) \o <<Digits[(n % 10) + 1]>>

\* The text a template literal gives an integer.
NumberToString(n) ==
    IF n < 0 THEN <<"-">> \o NatToString(0 - n) ELSE NatToString(n)

\* `${n}px`
Px(n) == NumberToString(n) \o <<"p", "x">>

\* Mutant: the sizes are clamped at zero.
getDimensionsClamped(p, ic, h) ==
    LET clamp(n) == IF n < 0 THEN 0 ELSE n
    IN  IF ic.VERTICAL_FILMSTRIP
        THEN [width |-> IF p.filmstripVisible
                        THEN Px(clamp(p.clientWidth - p.filmstripWidth))
                        ELSE Px(clamp(p.clientWidth)),
              height |-> Px(clamp(p.clientHeight - h.toolbox))]
        ELSE [width |-> Px(clamp(p.clientWidth)),
              height |-> IF p.filmstripVisible
                         THEN Px(clamp(p.clientHeight - h.filmstrip))
                         ELSE Px(clamp(p.clientHeight))]

\* h.toolbox is what getToolboxHeight() returns, h.filmstrip what
\* Filmstrip.getFilmstripHeight() returns.
getDimensions(p, ic, h) ==
    IF ic.VERTICAL_FILMSTRIP
    THEN [width |-> IF p.filmstripVisible
                    THEN Px(p.clientWidth - p.filmstripWidth)
                    ELSE Px(p.clientWidth),
          height |-> Px(p.clientHeight - h.toolbox)]
    ELSE [width |-> Px(p.clientWidth),
          height |-> IF p.filmstripVisible
                     THEN Px(p.clientHeight - h.filmstrip)
                     ELSE Px(p.clientHeight)]

InitToolboxIdle ==
    /\ toolbox = InitialToolbox
    /\ isDialogVisible = FALSE
    /\ config = [iAmRecorder |-> FALSE, iAmSipGateway |-> FALSE, isMobile |-> FALSE,
                 hangupEnabled |-> FALSE, endConferenceSupported |-> FALSE]
    /\ focusInToolbox = FALSE
    /\ lastCall = NoCall
    /\ dispatched = <<>>

InitDimensions ==
    /\ InitToolboxIdle
    /\ props \in [clientHeight : ClientSizes, clientWidth : ClientSizes,
                  filmstripVisible : BOOLEAN, filmstripWidth : SubSizes,
                  videoUrl : {<<>>}]
    /\ interfaceConfig \in [VERTICAL_FILMSTRIP : BOOLEAN]
    /\ pc = "ready"
    /\ heights = [toolbox |-> 0, filmstrip |-> 0]
    /\ result = [kind |-> "none"]

\* The branch taken decides which of the two height functions is called.
CallsToolboxHeight == interfaceConfig.VERTICAL_FILMSTRIP
CallsFilmstripHeight == ~interfaceConfig.VERTICAL_FILMSTRIP /\ props.filmstripVisible

getDimensionsCall ==
    /\ pc = "ready"
    /\ \E t \in (IF CallsToolboxHeight THEN SubSizes ELSE {0}),
          f \in (IF CallsFilmstripHeight THEN SubSizes ELSE {0}) :
          /\ heights' = [toolbox |-> t, filmstrip |-> f]
          /\ result' = getDimensions(props, interfaceConfig, heights')
    /\ pc' = "done"
    /\ UNCHANGED <<props, interfaceConfig>>
    /\ UNCHANGED toolboxVars

NextDimensions == getDimensionsCall

SpecDimensions == InitDimensions /\ [][NextDimensions]_vars

(***************************************************************************)
(* SharedVideo.getManager.                                                 *)
(*                                                                         *)
(* A video URL is a sequence of pieces of text; its string is their        *)
(* concatenation. No piece but "http" holds an "h", and no two strings of  *)
(* pieces are the same text, so a search for "http" and a test of the      *)
(* string's ending are searches for pieces.                                *)
(***************************************************************************)

MaxUrlLen == 5

Alphabet == {"http", "a", ":", "/", "?", ".flv", ".m3u8"}

Strings == UNION {[1 .. n -> Alphabet] : n \in 0 .. MaxUrlLen}

\* videoUrl?: string -- <<>> is undefined, <<s>> the string s.
VideoUrls == {<<>>} \cup {<<s>> : s \in Strings}

\* The first index at or after i of a piece in T, Len(s) + 1 when there is none.
RECURSIVE Find(_, _, _)
Find(s, T, i) ==
    IF i > Len(s) THEN Len(s) + 1
    ELSE IF s[i] \in T THEN i
    ELSE Find(s, T, i + 1)

\* videoUrl.match(/http/)
MatchesHttp(s) == Find(s, {"http"}, 1) <= Len(s)

\* String.prototype.endsWith, for a suffix that is one piece.
EndsWith(s, suffix) == s # <<>> /\ s[Len(s)] = suffix

\* The pieces that begin with an ASCII letter, and those made only of
\* letters, digits, "+", "-" and ".".
SchemeStart == {"http", "a"}
SchemeChars == {"http", "a", ".flv", ".m3u8"}

\* The schemes with a special meaning that the pieces can spell.
SpecialSchemes == {<<"http">>}

Failure == [failure |-> TRUE]

RECURSIVE SkipSlashes(_)
SkipSlashes(s) ==
    IF s # <<>> /\ Head(s) = "/" THEN SkipSlashes(Tail(s)) ELSE s

\* The path up to the query; a special URL always has a path.
PathName(s, special) ==
    LET path == SubSeq(s, 1, Find(s, {"?"}, 1) - 1)
    IN  IF path = <<>> /\ special THEN <<"/">> ELSE path

\* The authority state, the host state and the port state: s is what follows
\* the slashes of the authority.
ParseAuthority(s, special) ==
    LET end == Find(s, {"/", "?"}, 1)
        authority == SubSeq(s, 1, end - 1)
        colon == Find(authority, {":"}, 1)
        host == SubSeq(authority, 1, colon - 1)
        port == SubSeq(authority, colon + 1, Len(authority))
    IN  IF \/ host = <<>> /\ (special \/ colon <= Len(authority))
           \/ port # <<>>
        THEN Failure
        ELSE [failure |-> FALSE,
              pathname |-> PathName(SubSeq(s, end, Len(s)), special)]

\* new URL(s), with no base URL: a failure is the TypeError it throws.
ParseURL(s) ==
    LET colon == Find(s, Alphabet \ SchemeChars, 1)
    IN  IF \/ s = <<>>
           \/ s[1] \notin SchemeStart
           \/ colon > Len(s)
           \/ s[colon] # ":"
        THEN Failure
        ELSE LET scheme == SubSeq(s, 1, colon - 1)
                 rest == SubSeq(s, colon + 1, Len(s))
             IN  IF scheme \in SpecialSchemes
                 THEN ParseAuthority(SkipSlashes(rest), TRUE)
                 ELSE IF Len(rest) >= 2 /\ rest[1] = "/" /\ rest[2] = "/"
                 THEN ParseAuthority(SubSeq(rest, 3, Len(rest)), FALSE)
                 ELSE [failure |-> FALSE, pathname |-> PathName(rest, FALSE)]

getManager(p) ==
    IF p.videoUrl = <<>> \/ p.videoUrl[1] = <<>>
    THEN [kind |-> "null"]
    ELSE LET videoUrl == p.videoUrl[1]
         IN  IF MatchesHttp(videoUrl)
             THEN LET vUrl == ParseURL(videoUrl)
                  IN  IF vUrl.failure
                      THEN [kind |-> "TypeError"]
                      ELSE IF \/ EndsWith(vUrl.pathname, ".flv")
                              \/ EndsWith(vUrl.pathname, ".m3u8")
                      THEN [kind |-> "ExtendedVideoManager", videoId |-> videoUrl]
                      ELSE [kind |-> "VideoManager", videoId |-> videoUrl]
             ELSE [kind |-> "YoutubeVideoManager", videoId |-> videoUrl]

InitManager ==
    /\ InitToolboxIdle
    /\ props \in [clientHeight : {0}, clientWidth : {0}, filmstripVisible : {FALSE},
                  filmstripWidth : {0}, videoUrl : VideoUrls]
    /\ interfaceConfig = [VERTICAL_FILMSTRIP |-> FALSE]
    /\ pc = "ready"
    /\ heights = [toolbox |-> 0, filmstrip |-> 0]
    /\ result = [kind |-> "none"]

getManagerCall ==
    /\ pc = "ready"
    /\ result' = getManager(props)
    /\ pc' = IF result'.kind = "TypeError" THEN "threw" ELSE "done"
    /\ UNCHANGED <<props, interfaceConfig, heights>>
    /\ UNCHANGED toolboxVars

NextManager == getManagerCall

SpecManager == InitManager /\ [][NextManager]_vars

(***************************************************************************)
(* Properties of the toolbox handlers.                                     *)
(***************************************************************************)

Called(handler) == lastCall.handler = handler

\* C4: onSetHangupVisible(v) and onSetOverflowVisible(v) each dispatch the
\* menu's visibility first and setToolbarHovered(v) second; when the handler
\* has completed the targeted menu's visibility and the hovered flag both
\* equal v and the other menu's visibility is what it was.
C4_SetVisibleDispatchesMenuThenHovered ==
    /\ Called("onSetHangupVisible") =>
          /\ lastCall.dispatched = <<setHangupMenuVisible(lastCall.visible),
                                     setToolbarHovered(lastCall.visible)>>
          /\ lastCall.after.hangupMenuVisible = lastCall.visible
          /\ lastCall.after.hovered = lastCall.visible
          /\ lastCall.after.overflowMenuVisible = lastCall.before.overflowMenuVisible
    /\ Called("onSetOverflowVisible") =>
          /\ lastCall.dispatched = <<setOverflowMenuVisible(lastCall.visible),
                                     setToolbarHovered(lastCall.visible)>>
          /\ lastCall.after.overflowMenuVisible = lastCall.visible
          /\ lastCall.after.hovered = lastCall.visible
          /\ lastCall.after.hangupMenuVisible = lastCall.before.hangupMenuVisible

\* The hangup menu is closed from a hovered toolbar while the overflow menu is open.
C4_Witness ==
    /\ Called("onSetHangupVisible")
    /\ ~lastCall.visible
    /\ lastCall.before.hangupMenuVisible
    /\ lastCall.before.hovered
    /\ lastCall.before.overflowMenuVisible

\* C5: after onEscKey has handled an Escape key event neither menu is visible
\* and the event's propagation is stopped; for any other key, or no event,
\* nothing is dispatched and both visibility flags are unchanged; in neither
\* case does the hovered flag change.
C5_EscapeClosesBothMenus ==
    Called("onEscKey") =>
        /\ IF IsEscape(lastCall.event)
           THEN /\ ~lastCall.after.hangupMenuVisible
                /\ ~lastCall.after.overflowMenuVisible
                /\ lastCall.stopped
           ELSE /\ lastCall.dispatched = <<>>
                /\ lastCall.after.hangupMenuVisible = lastCall.before.hangupMenuVisible
                /\ lastCall.after.overflowMenuVisible = lastCall.before.overflowMenuVisible
        /\ lastCall.after.hovered = lastCall.before.hovered

\* Escape is pressed while both menus are open.
C5_Witness ==
    /\ Called("onEscKey")
    /\ IsEscape(lastCall.event)
    /\ lastCall.before.hangupMenuVisible
    /\ lastCall.before.overflowMenuVisible
    /\ lastCall.before.hovered

DigitValue(c) == CHOOSE d \in 0 .. 9 : Digits[d + 1] = c

RECURSIVE DigitsValue(_)
DigitsValue(cs) ==
    IF cs = <<>> THEN 0
    ELSE 10 * DigitsValue(SubSeq(cs, 1, Len(cs) - 1)) + DigitValue(cs[Len(cs)])

\* The number of pixels a CSS length "<integer>px" stands for.
PxValue(str) ==
    LET num == SubSeq(str, 1, Len(str) - 2)
    IN  IF num[1] = "-" THEN 0 - DigitsValue(Tail(num)) ELSE DigitsValue(num)

IsPx(str) ==
    /\ Len(str) >= 3
    /\ SubSeq(str, Len(str) - 1, Len(str)) = <<"p", "x">>
    /\ LET num == SubSeq(str, 1, Len(str) - 2)
           ds == IF num[1] = "-" THEN Tail(num) ELSE num
       IN  /\ ds # <<>>
           /\ \A i \in 1 .. Len(ds) : \E d \in 0 .. 9 : Digits[d + 1] = ds[i]

\* C2: with a vertical filmstrip the width is clientWidth - filmstripWidth
\* when the filmstrip is visible and clientWidth otherwise, and the height is
\* clientHeight - toolboxHeight either way; with a horizontal filmstrip the
\* height is clientHeight - filmstripHeight when the filmstrip is visible and
\* clientHeight otherwise, and the width is clientWidth either way. The width
\* does not exceed clientWidth and the height does not exceed clientHeight
\* when what is subtracted is not negative, and nothing is clamped at zero.
C2_DimensionsAreClientSizeMinusFilmstripOrToolbox ==
    pc = "done" =>
        /\ IsPx(result.width) /\ IsPx(result.height)
        /\ LET w == PxValue(result.width)
               h == PxValue(result.height)
           IN  /\ IF interfaceConfig.VERTICAL_FILMSTRIP
                  THEN /\ w = IF props.filmstripVisible
                              THEN props.clientWidth - props.filmstripWidth
                              ELSE props.clientWidth
                       /\ h = props.clientHeight - heights.toolbox
                  ELSE /\ h = IF props.filmstripVisible
                              THEN props.clientHeight - heights.filmstrip
                              ELSE props.clientHeight
                       /\ w = props.clientWidth
               /\ props.filmstripWidth >= 0 => w <= props.clientWidth
               /\ (heights.toolbox >= 0 /\ heights.filmstrip >= 0) => h <= props.clientHeight

\* A visible vertical filmstrip wider than the client, and a toolbox higher
\* than it: both sizes come out negative.
C2_Witness ==
    /\ pc = "done"
    /\ interfaceConfig.VERTICAL_FILMSTRIP
    /\ props.filmstripVisible
    /\ props.filmstripWidth > props.clientWidth
    /\ heights.toolbox > props.clientHeight
    /\ PxValue(result.width) < 0
    /\ PxValue(result.height) < 0

(***************************************************************************)
(* Properties of SharedVideo.getManager.                                   *)
(***************************************************************************)

Returned == pc \in {"done", "threw"}

Managers == {"ExtendedVideoManager", "VideoManager", "YoutubeVideoManager"}

NoVideoUrl == props.videoUrl = <<>> \/ props.videoUrl[1] = <<>>

\* C1: getManager returns null for an absent or empty videoUrl, an
\* ExtendedVideoManager when videoUrl contains "http" and its pathname ends
\* with ".flv" or ".m3u8", a VideoManager when it contains "http" and the
\* pathname has neither ending, and a YoutubeVideoManager for every other
\* videoUrl; one of these four is the outcome for each input, and the manager
\* is given videoUrl unmodified as its videoId.
C1_ManagerChosenFromUrlShape ==
    Returned =>
        /\ result.kind \in Managers \cup {"null"}
        /\ result.kind = "null" <=> NoVideoUrl
        /\ result.kind \in Managers => result.videoId = props.videoUrl[1]
        /\ result.kind = "YoutubeVideoManager" <=>
              (~NoVideoUrl /\ ~MatchesHttp(props.videoUrl[1]))
        /\ result.kind = "ExtendedVideoManager" =>
              LET vUrl == ParseURL(props.videoUrl[1])
              IN  /\ ~vUrl.failure
                  /\ \/ EndsWith(vUrl.pathname, ".flv")
                     \/ EndsWith(vUrl.pathname, ".m3u8")
        /\ result.kind = "VideoManager" =>
              LET vUrl == ParseURL(props.videoUrl[1])
              IN  /\ ~vUrl.failure
                  /\ ~EndsWith(vUrl.pathname, ".flv")
                  /\ ~EndsWith(vUrl.pathname, ".m3u8")

\* C3: for every videoUrl getManager completes by returning null or one
\* manager element, and never ends in an error.
C3_GetManagerNeverThrows ==
    Returned => pc = "done" /\ result.kind # "TypeError"

====
